---- MODULE Spec2Model ----
(***************************************************************************)
(* Entity-component system of FDS_SDK (FDS_std/FDS_EntityComSystem.h):     *)
(* the type registry getComTypeID, FDS_Component, FDS_Entity and           *)
(* FDS_EntityManager, with the call stack of the single frame thread.      *)
(*                                                                         *)
(* Objects live on a heap and are named by the order of their creation:    *)
(* entity k is the k-th entity made by addEntity(), component k the k-th   *)
(* component made by addComponent<T>().  The hooks init/update/draw are    *)
(* virtual; a hook body is modelled as a series of calls made              *)
(* through the component's owner pointer, the one handle the library gives *)
(* a component, followed by its return.                                    *)
(***************************************************************************)
EXTENDS Integers, Sequences, FiniteSets, TLC

\* ---- bounds of the model ----
MaxEntities == 2
MaxComps == 2
NumTypes == 2
\* entities of the runs that only create, destroy and refresh
MaxRefreshEntities == 4
\* entities and components of the runs in which an entity is given component
\* after component
MaxGrowEntities == 1
MaxGrowComps == 3
\* entities and components of the runs that register type after type
MaxCapEntities == 1
MaxCapComps == 1

\* connect() calls on the signal
MaxConnects == 4
\* loops started on the timer, and the rounds a loop is followed for
MaxWorkers == 1
MaxRounds == 3

\* ---- program constants ----
FDS_MAX_COM == 32

NULL == 0
NoID == -1

Max(S) == CHOOSE n \in S : \A m \in S : m <= n

Entities == 1..Max({MaxEntities, MaxRefreshEntities, MaxGrowEntities, MaxCapEntities})
Comps == 1..Max({MaxComps, MaxGrowComps, MaxCapComps})
Types == 1..NumTypes
\* one component type more than the bitset and the table have room for
AllTypes == 1..(FDS_MAX_COM + 1)
Slots == 0..(FDS_MAX_COM - 1)
HookKinds == {"update", "draw"}

VARIABLES
    lastID,      \* static FDS_ComID lastID of getComTypeID()
    typeID,      \* static FDS_ComID typeID of getComTypeID<T>(), NoID before its initialisation
    ent,         \* heap of FDS_Entity objects
    comp,        \* heap of FDS_Component objects
    m_entities,  \* FDS_EntityManager::m_entities
    stack,       \* calls in progress on the frame thread, innermost last
    passLog,     \* components whose hook ran in the current manager pass, in order
    passDirty,   \* a hook of the current manager pass called addComponent
    passDestroyers, \* components whose update or draw hook called destroy() in the current pass
    gone,        \* entities on which destroy() was called before a refresh() that completed
    firstReq,    \* component types in the order of their first identifier request
    slots_,      \* fds::Signal::slots_, as the set of its keys
    next_id_,    \* fds::Signal::next_id_
    emitIds,     \* ids of the emit() in progress, or of the last one
    emitPos,     \* position in ids of the callback emit() is calling
    inSlot,      \* the id whose callback is running, 0 when none is
    emitLog,     \* ids whose callback that emit() has called, in order
    emitStart,   \* keys of slots_ when that emit() started
    worker       \* the detached threads of fds::FunctionalTimer::loop

sigVars == <<slots_, next_id_, emitIds, emitPos, inSlot, emitLog, emitStart>>
timerVars == <<worker>>

vars == <<lastID, typeID, ent, comp, m_entities, stack, passLog, passDirty, passDestroyers,
          gone, firstReq, sigVars, timerVars>>

Workers == 1..MaxWorkers
\* a thread loop() has not started yet
NoWorker ==
    [pc |-> "none", mode |-> "none", rounds |-> 0,
     execute_immediately |-> "nullopt", callback |-> FALSE,
     current_round |-> 0, calls |-> 0, lastEval |-> "none", stopped |-> FALSE]

Range(s) == {s[k] : k \in 1..Len(s)}

\* ---- heap objects ----
\* FDS_Entity as constructed: active, no components, empty table and bitset
\* m_comArray is kept as the map of its non-null slots, m_comBitSet as the set of its set bits
NewEntity ==
    [st |-> "live", m_isActive |-> TRUE, m_components |-> <<>>,
     m_comArray |-> <<>>, m_comBitSet |-> {}]

NoEntity(st) ==
    [st |-> st, m_isActive |-> FALSE, m_components |-> <<>>,
     m_comArray |-> <<>>, m_comBitSet |-> {}]

\* std::array<FDS_Component*, FDS_MAX_COM>::operator[] and std::bitset<FDS_MAX_COM>::operator[]
ArrayAt(a, i) == IF i \in DOMAIN a THEN a[i] ELSE NULL
ArraySet(a, i, c) == [j \in (DOMAIN a) \cup {i} |-> IF j = i THEN c ELSE a[j]]
BitAt(b, i) == i \in b
BitSet(b, i) == b \cup {i}

\* FDS_Component: owner, plus its dynamic type and the number of init() calls it received
NoComp(st) == [st |-> st, type |-> 0, owner |-> NULL, inits |-> 0]

Live(e) == ent[e].st = "live"
LiveComp(c) == comp[c].st = "live"
NumCreatedEntities == Cardinality({e \in Entities : ent[e].st # "unborn"})
NumCreatedComps == Cardinality({c \in Comps : comp[c].st # "unborn"})

\* ---- call frames ----
Frame(op, kind, e, c, i, end, valid) ==
    [op |-> op, kind |-> kind, e |-> e, c |-> c, i |-> i, end |-> end, valid |-> valid]

Top == stack[Len(stack)]
Pop(s) == SubSeq(s, 1, Len(s) - 1)
Idle == stack = <<>>
\* the process has faulted: no call is made any more
Crashed == <<Frame("crash", "", 0, 0, 0, 0, FALSE)>>
Running == stack # <<>>

\* ---- type registry ----
\* getComTypeID(): return lastID++;
GetComTypeID0 == lastID
GetComTypeID0Next_stuck == lastID
GetComTypeID0Next == lastID + 1

\* getComTypeID<T>(): static FDS_ComID typeID = getComTypeID(); return typeID;
GetComTypeID(t) == IF typeID[t] = NoID THEN GetComTypeID0 ELSE typeID[t]
TypeIDAfter(t) == IF typeID[t] = NoID THEN [typeID EXCEPT ![t] = GetComTypeID0] ELSE typeID
LastIDAfter(t) == IF typeID[t] = NoID THEN GetComTypeID0Next ELSE lastID
FirstReqAfter(t) == IF typeID[t] = NoID THEN Append(firstReq, t) ELSE firstReq

Request(t) ==
    /\ typeID' = TypeIDAfter(t)
    /\ lastID' = LastIDAfter(t)
    /\ firstReq' = FirstReqAfter(t)

Init ==
    /\ lastID = 0
    /\ typeID = [t \in AllTypes |-> NoID]
    /\ ent = [e \in Entities |-> NoEntity("unborn")]
    /\ comp = [c \in Comps |-> NoComp("unborn")]
    /\ m_entities = <<>>
    /\ stack = <<>>
    /\ passLog = <<>>
    /\ passDirty = FALSE
    /\ passDestroyers = {}
    /\ gone = {}
    /\ firstReq = <<>>
    /\ slots_ = {}
    /\ next_id_ = 0
    /\ emitIds = <<>>
    /\ emitPos = 0
    /\ inSlot = 0
    /\ emitLog = <<>>
    /\ emitStart = {}
    /\ worker = [w \in Workers |-> NoWorker]

\* ---- FDS_EntityManager::addEntity ----
AddEntityUpTo(max) ==
    /\ Idle
    /\ NumCreatedEntities < max
    /\ LET e == NumCreatedEntities + 1 IN
        /\ ent' = [ent EXCEPT ![e] = NewEntity]
        /\ m_entities' = Append(m_entities, e)
    /\ UNCHANGED <<lastID, typeID, comp, stack, passLog, passDirty, passDestroyers, gone, firstReq,
                   sigVars, timerVars>>

AddEntity == AddEntityUpTo(MaxEntities)

\* ---- FDS_Entity::isActive / destroy ----
IsActive(e) == ent[e].m_isActive

DestroyEnt_toggle(e) == [ent EXCEPT ![e].m_isActive = ~@]
DestroyEnt(e) == [ent EXCEPT ![e].m_isActive = FALSE]

Destroy(e) ==
    /\ Idle
    /\ Live(e)
    /\ ent' = DestroyEnt(e)
    /\ UNCHANGED <<lastID, typeID, comp, m_entities, stack, passLog, passDirty, passDestroyers, gone, firstReq,
                   sigVars, timerVars>>

\* ---- FDS_EntityManager::refresh ----
\* the predicate handed to std::remove_if
RemovePred_inverted(e) == IsActive(e)
RemovePred(e) == ~IsActive(e)

\* std::find_if: the first position at or after first whose element satisfies the predicate
RECURSIVE FindIf(_, _)
FindIf(v, first) ==
    IF first > Len(v) THEN first
    ELSE IF RemovePred(v[first]) THEN first
    ELSE FindIf(v, first + 1)

\* the loop of std::remove_if over a vector of unique_ptr: *result = std::move(*first)
\* deletes what *result owned and leaves *first null
RECURSIVE RemoveIfLoop(_, _, _, _)
RemoveIfLoop(v, first, result, freed) ==
    IF first > Len(v) THEN [v |-> v, result |-> result, freed |-> freed]
    ELSE IF ~RemovePred(v[first])
         THEN RemoveIfLoop([v EXCEPT ![result] = v[first], ![first] = NULL],
                           first + 1, result + 1,
                           freed \cup ({v[result]} \ {NULL}))
         ELSE RemoveIfLoop(v, first + 1, result, freed)

RemoveIf(v) ==
    LET first == FindIf(v, 1) IN
    IF first > Len(v) THEN [v |-> v, result |-> first, freed |-> {}]
    ELSE RemoveIfLoop(v, first + 1, first, {})

\* vector::erase(result, end): destroys the tail, deleting what it still owns
EraseTail(r) ==
    [v |-> SubSeq(r.v, 1, r.result - 1),
     freed |-> r.freed \cup ({r.v[k] : k \in r.result..Len(r.v)} \ {NULL})]

Refresh ==
    /\ Idle
    /\ LET r == EraseTail(RemoveIf(m_entities)) IN
        /\ m_entities' = r.v
        /\ ent' = [e \in Entities |-> IF e \in r.freed THEN NoEntity("freed") ELSE ent[e]]
        /\ comp' = [c \in Comps |-> IF \E e \in r.freed : c \in Range(ent[e].m_components)
                                      THEN NoComp("freed") ELSE comp[c]]
    /\ gone' = gone \cup {e \in Entities : Live(e) /\ ~IsActive(e)}
    /\ UNCHANGED <<lastID, typeID, stack, passLog, passDirty, passDestroyers, firstReq,
                   sigVars, timerVars>>

\* ---- FDS_Entity::hasComponent / getComponent ----
\* m_comBitSet[getComTypeID<T>()]
HasComponent(e, t) == BitAt(ent[e].m_comBitSet, GetComTypeID(t))

\* m_comArray[getComTypeID<T>()]
GetComponent(e, t) == ArrayAt(ent[e].m_comArray, GetComTypeID(t))

\* an index at or past FDS_MAX_COM reads or writes outside the bitset and the
\* table, which is undefined: the access faults, or it lands in the memory that
\* follows and the call goes on
PastEnd(id) == IF id < FDS_MAX_COM THEN {} ELSE {Crashed}

HasComponentCall(e, t) ==
    /\ Idle
    /\ Live(e)
    /\ Request(t)
    /\ stack' \in {stack} \cup PastEnd(GetComTypeID(t))
    /\ UNCHANGED <<ent, comp, m_entities, passLog, passDirty, passDestroyers, gone,
                   sigVars, timerVars>>

\* return *static_cast<T*>(ptr): with an empty slot this dereferences a null
\* pointer, which is undefined: the call faults or hands back a dead reference
GetComponentCall(e, t) ==
    /\ Idle
    /\ Live(e)
    /\ Request(t)
    /\ stack' \in {stack} \cup PastEnd(GetComTypeID(t))
                         \cup (IF GetComponent(e, t) = NULL THEN {Crashed} ELSE {})
    /\ UNCHANGED <<ent, comp, m_entities, passLog, passDirty, passDestroyers, gone,
                   sigVars, timerVars>>

\* ---- FDS_Entity::addComponent ----
\* T* com(new T(...)); com->owner = this;
NewComp(e, t) == [st |-> "live", type |-> t, owner |-> e, inits |-> 0]

\* m_components.emplace_back(...); m_comArray[id] = com; m_comBitSet[id] = true;
EntAfterAdd_keepfirst(e, c, id) ==
    [ent[e] EXCEPT !.m_components = Append(@, c),
                   !.m_comArray = IF ArrayAt(@, id) = NULL THEN ArraySet(@, id, c) ELSE @,
                   !.m_comBitSet = BitSet(@, id)]

EntAfterAdd_front(e, c, id) ==
    [ent[e] EXCEPT !.m_components = <<c>> \o @,
                   !.m_comArray = ArraySet(@, id, c),
                   !.m_comBitSet = BitSet(@, id)]

EntAfterAdd_nobit(e, c, id) ==
    [ent[e] EXCEPT !.m_components = Append(@, c),
                   !.m_comArray = ArraySet(@, id, c)]

EntAfterAdd_replace(e, c, id) ==
    [ent[e] EXCEPT !.m_components = Append(SelectSeq(@, LAMBDA d : d # ArrayAt(ent[e].m_comArray, id)), c),
                   !.m_comArray = ArraySet(@, id, c),
                   !.m_comBitSet = BitSet(@, id)]

EntAfterAdd(e, c, id) ==
    [ent[e] EXCEPT !.m_components = Append(@, c),
                   !.m_comArray = ArraySet(@, id, c),
                   !.m_comBitSet = BitSet(@, id)]

\* emplace_back on m_components invalidates the iterators of every range-for
\* that is walking the same vector
Invalidate(s, e) ==
    [k \in 1..Len(s) |-> IF s[k].op = "ent" /\ s[k].e = e THEN [s[k] EXCEPT !.valid = FALSE] ELSE s[k]]

InPass(s) == \E k \in 1..Len(s) : s[k].op = "mgr"

\* a virtual hook of component c is called: a hook frame is pushed
CallHook(s, kind, e, c) == Append(s, Frame("hook", kind, e, c, 0, 0, TRUE))
\* ... and init() calls are counted on the component
CountInit(cm, kind, c) == IF kind = "init" THEN [cm EXCEPT ![c].inits = @ + 1] ELSE cm

\* the hook FDS_Entity::update() / draw() calls on each component
EntHook_init(kind) == "init"
EntHook(kind) == kind

\* the part of addComponent up to the call of com->init()
BeginAdd(max, e, t, s) ==
    LET c == NumCreatedComps + 1
        id == GetComTypeID(t)
    IN  /\ NumCreatedComps < max
        /\ Request(t)
        /\ comp' = CountInit([comp EXCEPT ![c] = NewComp(e, t)], "init", c)
        /\ ent' = [ent EXCEPT ![e] = EntAfterAdd(e, c, id)]
        /\ stack' \in {CallHook(Append(Invalidate(s, e), Frame("add", "", e, c, 0, 0, TRUE)),
                                "init", e, c)} \cup PastEnd(id)

AddComponentUpTo(max, e, t) ==
    /\ Idle
    /\ Live(e)
    /\ BeginAdd(max, e, t, stack)
    /\ UNCHANGED <<m_entities, passLog, passDirty, passDestroyers, gone,
                   sigVars, timerVars>>

AddComponent(e, t) == AddComponentUpTo(MaxComps, e, t)

\* ---- hook bodies: calls through owner, then return ----
InHook == Running /\ Top.op = "hook"

HookDestroy ==
    /\ InHook
    /\ ent' = DestroyEnt(comp[Top.c].owner)
    /\ passDestroyers' = IF Top.kind \in HookKinds
                        THEN passDestroyers \cup {Top.c}
                        ELSE passDestroyers
    /\ UNCHANGED <<lastID, typeID, comp, m_entities, stack, passLog, passDirty, gone, firstReq,
                   sigVars, timerVars>>

HookAddUpTo(max, t) ==
    /\ InHook
    /\ BeginAdd(max, comp[Top.c].owner, t, stack)
    /\ passDirty' = (passDirty \/ InPass(stack))
    /\ UNCHANGED <<m_entities, passLog, passDestroyers, gone,
                   sigVars, timerVars>>

HookAdd(t) == HookAddUpTo(MaxComps, t)

\* ---- FDS_Entity::update / draw and FDS_EntityManager::update / draw ----
\* for (auto& c : m_components) c->update();   begin and end are taken once
EntFrame_skipInactive(kind, e) ==
    Frame("ent", kind, e, 0, 1, IF IsActive(e) THEN Len(ent[e].m_components) ELSE 0, TRUE)
EntFrame(kind, e) == Frame("ent", kind, e, 0, 1, Len(ent[e].m_components), TRUE)

\* for (auto& e : m_entities) e->update();
MgrFrame_untilInactive(kind) == Frame("mgr", kind, 0, 0, 1, FindIf(m_entities, 1) - 1, TRUE)
MgrFrame(kind) == Frame("mgr", kind, 0, 0, 1, Len(m_entities), TRUE)

\* the range-for of FDS_Entity::update / draw goes on: it != end
EntLoopGoes_whileActive(f) == f.i <= f.end /\ IsActive(f.e)
EntLoopGoes(f) == f.i <= f.end

\* The loops run on from the stack s to the next virtual call, or to the return
\* of the outermost call. The result is the set of stacks they can arrive at:
\* one, unless a loop reads through an iterator that addComponent invalidated
\* by growing m_components under it. That read is undefined: the old storage
\* still shows the element and the loop goes on, or the read faults.
RECURSIVE Resume(_)
Resume(s) ==
    IF s = <<>> THEN {s}
    ELSE LET f == s[Len(s)]
             on == [s EXCEPT ![Len(s)].i = @ + 1]
         IN  CASE f.op = "mgr" ->
                    IF f.i <= f.end
                    THEN Resume(Append(on, EntFrame(f.kind, m_entities[f.i])))
                    ELSE Resume(Pop(s))
               [] f.op = "ent" ->
                    IF EntLoopGoes(f)
                    THEN {CallHook(on, EntHook(f.kind), f.e, ent[f.e].m_components[f.i])}
                         \cup (IF f.valid THEN {} ELSE {Crashed})
                    ELSE Resume(Pop(s))
               [] OTHER -> {s}

\* the loops went from stack s to stack s2 by calling a hook
NewHook(s, s2) == s2 # s /\ s2 # <<>> /\ s2[Len(s2)].op = "hook"

\* what running from s to s2 leaves behind: the init() count of the component
\* called, the log of the pass, both reset when the pass returns
Arrive(s, s2) ==
    /\ stack' = s2
    /\ comp' = IF NewHook(s, s2)
               THEN CountInit(comp, s2[Len(s2)].kind, s2[Len(s2)].c)
               ELSE comp
    /\ passLog' = IF s2 = <<>> THEN <<>>
                  ELSE IF NewHook(s, s2) /\ InPass(s2) THEN Append(passLog, s2[Len(s2)].c)
                  ELSE passLog
    /\ passDirty' = IF s2 = <<>> THEN FALSE ELSE passDirty
    /\ passDestroyers' = IF s2 = <<>> THEN {} ELSE passDestroyers

ManagerCall_sweeping(kind) ==
    /\ Idle
    /\ \E s2 \in Resume(<<MgrFrame(kind)>>) : Arrive(<<>>, s2)
    /\ m_entities' = SelectSeq(m_entities, IsActive)
    /\ UNCHANGED <<lastID, typeID, ent, gone, firstReq,
                   sigVars, timerVars>>

ManagerCall(kind) ==
    /\ Idle
    /\ \E s2 \in Resume(<<MgrFrame(kind)>>) : Arrive(<<>>, s2)
    /\ UNCHANGED <<lastID, typeID, ent, m_entities, gone, firstReq,
                   sigVars, timerVars>>

\* the hook returns to its caller: init() to addComponent, which returns *com
\* to its own caller; update() and draw() to the loop of FDS_Entity
Return(s) == IF s[Len(s) - 1].op = "add" THEN Pop(Pop(s)) ELSE Pop(s)

HookReturn ==
    /\ InHook
    /\ \E s2 \in Resume(Return(stack)) : Arrive(Return(stack), s2)
    /\ UNCHANGED <<lastID, typeID, ent, m_entities, gone, firstReq,
                   sigVars, timerVars>>

\* The names of the component types carry no meaning, so the runs of Spec name
\* them in the order of their first use: a call may name a type already
\* requested, or the first type not requested yet. SpecTypes lifts this.
TypesInUse == {t \in Types : \A u \in Types : u < t => typeID[u] # NoID}

Next ==
    \/ AddEntity
    \/ \E e \in Entities : Destroy(e)
    \/ Refresh
    \/ \E e \in Entities, t \in TypesInUse : HasComponentCall(e, t)
    \/ \E e \in Entities, t \in TypesInUse : GetComponentCall(e, t)
    \/ \E e \in Entities, t \in TypesInUse : AddComponent(e, t)
    \/ HookDestroy
    \/ \E t \in TypesInUse : HookAdd(t)
    \/ HookReturn
    \/ \E k \in HookKinds : ManagerCall(k)

Spec == Init /\ [][Next]_vars

\* the operations that request type identifiers, with the types in any order
NextTypes ==
    \/ AddEntity
    \/ \E e \in Entities, t \in Types : HasComponentCall(e, t)
    \/ \E e \in Entities, t \in Types : GetComponentCall(e, t)
    \/ \E e \in Entities, t \in Types : AddComponent(e, t)
    \/ \E t \in Types : HookAdd(t)
    \/ HookReturn

SpecTypes == Init /\ [][NextTypes]_vars

\* the manager alone: entities are created, destroyed and refreshed, none has a component
AddEntityRefresh == AddEntityUpTo(MaxRefreshEntities)

NextRefresh ==
    \/ AddEntityRefresh
    \/ \E e \in Entities : Destroy(e)
    \/ Refresh

SpecRefresh == Init /\ [][NextRefresh]_vars

\* an entity that is given component after component, by the driver and by
\* the hooks of its components, and is updated and drawn
AddEntityGrow == AddEntityUpTo(MaxGrowEntities)

NextGrow ==
    \/ AddEntityGrow
    \/ \E e \in Entities, t \in TypesInUse : AddComponentUpTo(MaxGrowComps, e, t)
    \/ \E t \in TypesInUse : HookAddUpTo(MaxGrowComps, t)
    \/ HookReturn
    \/ \E k \in HookKinds : ManagerCall(k)

SpecGrow == Init /\ [][NextGrow]_vars

\* a program that registers component type after component type: a call names
\* the type registered last or the first type not registered yet
AddEntityCap == AddEntityUpTo(MaxCapEntities)

LatestTypes == {t \in AllTypes : t = lastID \/ t = lastID + 1}

NextCap ==
    \/ AddEntityCap
    \/ \E e \in Entities, t \in LatestTypes : HasComponentCall(e, t)
    \/ \E e \in Entities, t \in LatestTypes : GetComponentCall(e, t)
    \/ \E e \in Entities, t \in LatestTypes : AddComponentUpTo(MaxCapComps, e, t)
    \/ HookReturn

SpecCap == Init /\ [][NextCap]_vars

\* ---- fds::Signal ----
\* A callback is known by the id connect() gave it. The body of a callback is
\* a series of connect, disconnect and disconnect_all calls on the signal,
\* then its return.
Ids == 1..MaxConnects

\* const std::size_t id = ++next_id_; slots_.emplace(id, ...);
SigConnect ==
    /\ next_id_ < MaxConnects
    /\ next_id_' = next_id_ + 1
    /\ slots_' = slots_ \cup {next_id_ + 1}
    /\ UNCHANGED <<emitIds, emitPos, inSlot, emitLog, emitStart>>

\* slots_.erase(id), with an id some connect() returned
SigDisconnect(id) ==
    /\ id <= next_id_
    /\ slots_' = slots_ \ {id}
    /\ UNCHANGED <<next_id_, emitIds, emitPos, inSlot, emitLog, emitStart>>

\* slots_.clear()
SigDisconnectAll ==
    /\ slots_' = {}
    /\ UNCHANGED <<next_id_, emitIds, emitPos, inSlot, emitLog, emitStart>>

\* for (auto &kv : slots_) ids.push_back(kv.first): std::unordered_map is
\* iterated in an order the library leaves unspecified
RECURSIVE Orders(_)
Orders(S) ==
    IF S = {} THEN {<<>>}
    ELSE UNION {{<<x>> \o o : o \in Orders(S \ {x})} : x \in S}

\* slots_.find(id) != slots_.end()
StillConnected_always(id) == TRUE
StillConnected(id) == id \in slots_

\* for (auto id : ids): the first position at or after k whose id is still found
RECURSIVE NextTurn(_, _)
NextTurn(ids, k) ==
    IF k > Len(ids) THEN k
    ELSE IF StillConnected(ids[k]) THEN k
    ELSE NextTurn(ids, k + 1)

\* emit() runs on to the next callback it calls, or to its end
EmitOn(ids, k) ==
    /\ emitPos' = k
    /\ inSlot' = IF k <= Len(ids) THEN ids[k] ELSE 0
    /\ emitLog' = IF k <= Len(ids) THEN Append(emitLog, ids[k]) ELSE emitLog

SigEmit ==
    /\ inSlot = 0
    /\ \E ids \in Orders(slots_) :
        /\ emitIds' = ids
        /\ emitStart' = slots_
        /\ emitPos' = NextTurn(ids, 1)
        /\ inSlot' = IF ids # <<>> THEN ids[NextTurn(ids, 1)] ELSE 0
        /\ emitLog' = IF ids # <<>> THEN <<ids[NextTurn(ids, 1)]>> ELSE <<>>
    /\ UNCHANGED <<slots_, next_id_>>

\* the callback returns to the loop of emit()
SigSlotReturn ==
    /\ inSlot # 0
    /\ EmitOn(emitIds, NextTurn(emitIds, emitPos + 1))
    /\ UNCHANGED <<slots_, next_id_, emitIds, emitStart>>

ecsVars == <<lastID, typeID, ent, comp, m_entities, stack, passLog, passDirty, passDestroyers,
             gone, firstReq>>

NextSignal ==
    \/ SigConnect /\ UNCHANGED <<ecsVars, timerVars>>
    \/ \E id \in Ids : SigDisconnect(id) /\ UNCHANGED <<ecsVars, timerVars>>
    \/ SigDisconnectAll /\ UNCHANGED <<ecsVars, timerVars>>
    \/ SigEmit /\ UNCHANGED <<ecsVars, timerVars>>
    \/ SigSlotReturn /\ UNCHANGED <<ecsVars, timerVars>>

SpecSignal == Init /\ [][NextSignal]_vars

\* ---- fds::FunctionalTimer::loop ----
\* Each loop() call starts a detached thread, a worker. Its record holds what
\* the lambda captured (rounds, execute_immediately, callback: whether the
\* std::function holds a target), its local current_round and its position pc;
\* calls counts the invocations of the callback, lastEval is what condition()
\* last returned since the callback was last invoked, stopped that condition()
\* has returned false.
OptBools == {"nullopt", "true", "false"}
RoundsIn == -1..MaxRounds

\* execute_immediately.value_or(false)
ValueOr(x, d) == IF x = "nullopt" THEN d ELSE x = "true"

\* loop(milliseconds, callback, rounds, execute_immediately)
LoopRounds(w, rounds, imm, cb) ==
    /\ worker[w].pc = "none"
    /\ worker' = [worker EXCEPT ![w] =
            [NoWorker EXCEPT !.pc = "begin", !.mode = "rounds", !.rounds = rounds,
                             !.execute_immediately = imm, !.callback = cb]]

\* loop(milliseconds, callback, condition, execute_immediately)
LoopCond(w, imm, cb) ==
    /\ worker[w].pc = "none"
    /\ worker' = [worker EXCEPT ![w] =
            [NoWorker EXCEPT !.pc = "begin", !.mode = "cond",
                             !.execute_immediately = imm, !.callback = cb]]

\* if (callback) callback();
Invoke(r) == IF r.callback THEN [r EXCEPT !.calls = @ + 1, !.lastEval = "none"] ELSE r

\* current_round++, the local of the loop with rounds
CountRound(r) == IF r.mode = "rounds" THEN [r EXCEPT !.current_round = @ + 1] ELSE r

\* if (should_execute_immediately) { if (callback) callback(); current_round++; }
WorkerBegin(w) ==
    /\ worker[w].pc = "begin"
    /\ worker' = [worker EXCEPT ![w] =
            [(IF ValueOr(@.execute_immediately, FALSE) THEN CountRound(Invoke(@)) ELSE @)
                EXCEPT !.pc = "test"]]

\* while (rounds == 0 || current_round < rounds)
RoundsLoopGoes_offByOne(rounds, current_round) == rounds = 0 \/ current_round <= rounds
RoundsLoopGoes(rounds, current_round) == rounds = 0 \/ current_round < rounds

\* while (condition()), with r what condition() returned
CondLoopGoes_always(r) == TRUE
CondLoopGoes(r) == r

WorkerTestRounds(w) ==
    /\ worker[w].pc = "test"
    /\ worker[w].mode = "rounds"
    /\ worker' = [worker EXCEPT ![w].pc =
            IF RoundsLoopGoes(worker[w].rounds, worker[w].current_round) THEN "sleep" ELSE "done"]

WorkerTestCond(w, r) ==
    /\ worker[w].pc = "test"
    /\ worker[w].mode = "cond"
    /\ worker' = [worker EXCEPT ![w].pc = IF CondLoopGoes(r) THEN "sleep" ELSE "done",
                                ![w].lastEval = IF r THEN "true" ELSE "false",
                                ![w].stopped = @ \/ ~r]

\* sleep_for(milliseconds); if (callback) callback(); current_round++;
\* followed for MaxRounds rounds
WorkerWake(w) ==
    /\ worker[w].pc = "sleep"
    /\ worker[w].current_round < MaxRounds
    /\ worker[w].calls < MaxRounds
    /\ worker' = [worker EXCEPT ![w] = [CountRound(Invoke(@)) EXCEPT !.pc = "test"]]

WorkerStep(w) ==
    \/ WorkerBegin(w)
    \/ WorkerTestRounds(w)
    \/ \E r \in BOOLEAN : WorkerTestCond(w, r)
    \/ WorkerWake(w)

NextTimer ==
    \/ \E w \in Workers, n \in RoundsIn, imm \in OptBools, cb \in BOOLEAN :
            LoopRounds(w, n, imm, cb) /\ UNCHANGED <<ecsVars, sigVars>>
    \/ \E w \in Workers, imm \in OptBools, cb \in BOOLEAN :
            LoopCond(w, imm, cb) /\ UNCHANGED <<ecsVars, sigVars>>
    \/ \E w \in Workers : WorkerBegin(w) /\ UNCHANGED <<ecsVars, sigVars>>
    \/ \E w \in Workers : WorkerTestRounds(w) /\ UNCHANGED <<ecsVars, sigVars>>
    \/ \E w \in Workers, r \in BOOLEAN : WorkerTestCond(w, r) /\ UNCHANGED <<ecsVars, sigVars>>
    \/ \E w \in Workers : WorkerWake(w) /\ UNCHANGED <<ecsVars, sigVars>>

SpecTimer == Init /\ [][NextTimer]_vars

\* a detached thread is scheduled again and again, and sleep_for, the callback
\* and the condition return
SpecTimerFair == SpecTimer /\ \A w \in Workers : WF_vars(WorkerStep(w) /\ UNCHANGED <<ecsVars, sigVars>>)

\* ==== properties ====

\* this step calls the update or draw hook of component c
HookCalled(c) == passLog' = Append(passLog, c)

\* this step calls init() of component c
InitCalled(c) == comp'[c].inits = comp[c].inits + 1

\* this step is the return of the addComponent call that made component c on entity e
AddReturns(e, c) ==
    /\ InHook
    /\ Len(stack) >= 2
    /\ stack[Len(stack) - 1] = Frame("add", "", e, c, 0, 0, TRUE)
    /\ stack' \in Resume(Return(stack))

\* the addComponent call that made component c has returned
Added(c) == LiveComp(c) /\ \A k \in 1..Len(stack) : ~(stack[k].op = "add" /\ stack[k].c = c)

\* the components of type t that entity e owns
Owned(e, t) == {c \in Comps : LiveComp(c) /\ comp[c].owner = e /\ comp[c].type = t}
Newest(S) == CHOOSE c \in S : \A d \in S : d <= c

\* a set of objects as the sequence of their creation
RECURSIVE InCreationOrder(_)
InCreationOrder(S) ==
    IF S = {} THEN <<>>
    ELSE LET m == CHOOSE x \in S : \A y \in S : x <= y
         IN  <<m>> \o InCreationOrder(S \ {m})

\* the components entity e was given, of any type
CompsOf(e) == {c \in Comps : LiveComp(c) /\ comp[c].owner = e}

RECURSIVE Flatten(_)
Flatten(es) == IF es = <<>> THEN <<>> ELSE InCreationOrder(CompsOf(Head(es))) \o Flatten(Tail(es))

\* the hook calls one manager pass owes: entities as created, components as added
Expected == Flatten(InCreationOrder(Range(m_entities)))

IsPrefix(p, q) == Len(p) <= Len(q) /\ SubSeq(q, 1, Len(p)) = p

\* the state of entity e in the life cycle Active -> PendingRemoval -> Removed
EState(e) ==
    CASE ent[e].st = "unborn" -> "None"
      [] ent[e].st = "freed" -> "Removed"
      [] ent[e].st = "live" /\ IsActive(e) -> "Active"
      [] OTHER -> "PendingRemoval"

Forward ==
    { <<"None", "None">>, <<"None", "Active">>, <<"Active", "Active">>,
      <<"Active", "PendingRemoval">>, <<"PendingRemoval", "PendingRemoval">>,
      <<"PendingRemoval", "Removed">>, <<"Removed", "Removed">> }

\* this step is a call of e.destroy(), by the driver or by a hook of e's component
DestroyStep(e) == Destroy(e) \/ (HookDestroy /\ comp[Top.c].owner = e)

\* the types whose identifier was handed out
Registered == {t \in Types : typeID[t] # NoID}

\* bitset and table of entity e agree, and the table points into e's components
Consistent(e) ==
    \A i \in Slots :
        /\ BitAt(ent[e].m_comBitSet, i) <=> ArrayAt(ent[e].m_comArray, i) # NULL
        /\ ArrayAt(ent[e].m_comArray, i) # NULL =>
                ArrayAt(ent[e].m_comArray, i) \in Range(ent[e].m_components)

\* C1: after refresh() the manager's sequence is exactly the subsequence of the
\* pre-refresh sequence made of the entities whose active flag is true, in the
\* same relative order; with no inactive entity (or no entity at all) it is
\* unchanged, with only inactive entities it becomes empty.
C1_RefreshKeepsActiveInOrder ==
    [][Refresh =>
        /\ m_entities' = SelectSeq(m_entities, IsActive)
        /\ (\A k \in 1..Len(m_entities) : IsActive(m_entities[k])) => m_entities' = m_entities
        /\ (\A k \in 1..Len(m_entities) : ~IsActive(m_entities[k])) => m_entities' = <<>>
      ]_vars

\* a refresh removed entities that stood before and between two survivors
C1_Witness ==
    /\ ent[1].st = "freed"
    /\ ent[3].st = "freed"
    /\ m_entities = <<2, 4>>

\* C2: once destroy() was called on an entity and a refresh() completed after
\* it, no update or draw hook of a component of that entity is called again.
C2_NoHookAfterDestroyRefresh ==
    [][\A c \in Comps : HookCalled(c) => LiveComp(c) /\ comp[c].owner \notin gone]_vars

\* an entity with a component was destroyed and refreshed away, and a later
\* manager pass has called a hook of another entity's component
C2_Witness ==
    /\ gone # {}
    /\ \E c \in Comps : comp[c].st = "freed"
    /\ passLog # <<>>

\* C3 as claimed: right after e.addComponent<T>() returns, e.hasComponent<T>()
\* is true and e.getComponent<T>() is the component that call created, whose
\* owner is e.
C3_GetIsJustCreated ==
    [][\A e \in Entities, c \in Comps : AddReturns(e, c) =>
        /\ HasComponent(e, comp[c].type)'
        /\ GetComponent(e, comp[c].type)' = c
        /\ comp'[c].owner = e
      ]_vars

\* C3 as amended: right after e.addComponent<T>() returns, e.hasComponent<T>()
\* is true and e.getComponent<T>() is the newest component of type T that e
\* owns, whose owner is e: the one the call created, unless its init() added
\* another T to e.
C3_GetIsNewestOfType ==
    [][\A e \in Entities, c \in Comps : AddReturns(e, c) =>
        /\ HasComponent(e, comp[c].type)'
        /\ GetComponent(e, comp[c].type)' = Newest(Owned(e, comp[c].type))
        /\ GetComponent(e, comp[c].type)' >= c
        /\ comp'[GetComponent(e, comp[c].type)'].owner = e
        /\ comp'[c].owner = e
        /\ (\A d \in Owned(e, comp[c].type) : d <= c) => GetComponent(e, comp[c].type)' = c
      ]_vars

\* addComponent has returned for two components of one entity, of different
\* types, each found by getComponent under its own type
C3_Witness ==
    \E e \in Entities, c, d \in Comps, t, u \in Types :
        /\ t # u /\ c # d
        /\ Added(c) /\ Added(d)
        /\ HasComponent(e, t) /\ GetComponent(e, t) = c /\ comp[c].owner = e
        /\ HasComponent(e, u) /\ GetComponent(e, u) = d /\ comp[d].owner = e

\* C4: addComponent calls init() on the new component exactly once; when init()
\* starts the owner is the adding entity, the component is in the owned
\* sequence and is recorded in the table and the bitset under its type; no
\* later step calls init() on it again.
C4_InitOnceAfterRecording ==
    [][/\ \A c \in Comps : InitCalled(c) =>
            LET f == stack'[Len(stack')]
                a == stack'[Len(stack') - 1]
            IN  /\ f.op = "hook" /\ f.kind = "init" /\ f.c = c
                /\ a.op = "add" /\ a.c = c
                /\ \E e \in Entities, t \in Types :
                      /\ e = a.e /\ t = comp'[c].type
                      /\ comp'[c].owner = e
                      /\ c \in Range(ent'[e].m_components)
                      /\ HasComponent(e, t)'
                      /\ GetComponent(e, t)' = c
       /\ \A c \in Comps : LiveComp(c)' => comp'[c].inits = 1
       /\ \A c \in Comps : LiveComp(c) /\ LiveComp(c)' => comp'[c].inits = comp[c].inits
      ]_vars

\* a component whose addComponent returned long ago has had its update or draw
\* hook called in a manager pass, and still counts one init()
C4_Witness ==
    \E c \in Comps :
        /\ Added(c)
        /\ c \in Range(passLog)
        /\ comp[c].inits = 1

\* C5: in a manager update() (resp. draw()) during which no hook adds a
\* component, the update (resp. draw) hooks are called entity by entity in the
\* order the entities were created, within an entity in the order its
\* components were added, each exactly once.
C5_PassInCreationOrder ==
    [][/\ (InPass(stack) /\ ~passDirty) => IsPrefix(passLog, Expected)
       /\ (InPass(stack) /\ stack' = <<>> /\ ~passDirty) => passLog = Expected
       /\ \A k \in HookKinds : (ManagerCall(k) /\ stack' = <<>>) => Expected = <<>>
      ]_vars

\* a pass without structural change has called the hooks of two components
\* and owes no more
C5_Witness ==
    /\ InPass(stack)
    /\ ~passDirty
    /\ Len(passLog) >= 2
    /\ passLog = Expected

\* C6: a type keeps the identifier of its first request, two types never share
\* one, and the identifiers are 0, 1, 2, ... in the order of the first requests.
C6_TypeIdInjectiveStable ==
    [][/\ \A t \in Registered : typeID'[t] = typeID[t] /\ GetComTypeID(t)' = GetComTypeID(t)
       /\ \A t, u \in Registered' : t # u => typeID'[t] # typeID'[u]
       /\ Len(firstReq') = Cardinality(Registered')
       /\ \A k \in 1..Len(firstReq') : typeID'[firstReq'[k]] = k - 1
       /\ lastID' = Len(firstReq')
      ]_vars

\* two types were registered, the second of the program first
C6_Witness ==
    /\ Len(firstReq) >= 2
    /\ firstReq[1] > firstReq[2]
    /\ typeID[firstReq[1]] = 0
    /\ typeID[firstReq[2]] = 1

\* C7: whenever an addComponent call returns, nested ones included, in every
\* entity bit i of the bitset is set exactly when slot i of the table is
\* non-null, and a non-null slot is a component of the entity's own sequence.
C7_BitsetMatchesTable ==
    [][(\E e \in Entities, c \in Comps : AddReturns(e, c)) =>
            \A e \in Entities : Live(e)' => Consistent(e)'
      ]_vars

\* an addComponent called from init() has returned while the outer one has
\* not, and the entity holds components of two types
C7_Witness ==
    \E c, d \in Comps :
        /\ c < d
        /\ LiveComp(c) /\ ~Added(c)
        /\ Added(d)
        /\ comp[c].owner = comp[d].owner
        /\ comp[c].type # comp[d].type
        /\ Cardinality(ent[comp[c].owner].m_comBitSet) = 2
        /\ Consistent(comp[c].owner)

\* C8: an entity only moves forward through Active -> PendingRemoval ->
\* Removed: destroy() takes Active to PendingRemoval and leaves PendingRemoval
\* alone, refresh() takes PendingRemoval to Removed and leaves Active alone,
\* nothing makes isActive() true again and nothing removes an Active entity.
C8_LifeCycleForwardOnly ==
    [][\A e \in Entities :
        LET a == EState(e)
            b == EState(e)'
        IN  /\ <<a, b>> \in Forward
            /\ DestroyStep(e) => /\ a = "Active" => b = "PendingRemoval"
                                 /\ a = "PendingRemoval" => b = "PendingRemoval"
            /\ Refresh => /\ a = "PendingRemoval" => b = "Removed"
                          /\ a = "Active" => b = "Active"
            /\ (a = "Active" /\ b = "PendingRemoval") => DestroyStep(e)
            /\ (a # "Removed" /\ b = "Removed") => Refresh
      ]_vars

\* a refresh removed a destroyed entity and left an older one Active, and a
\* hook has since destroyed that one
C8_Witness ==
    \E e, f \in Entities :
        /\ f < e
        /\ EState(e) = "Removed"
        /\ EState(f) = "PendingRemoval"
        /\ InPass(stack)

\* C9: only refresh() removes entities: every other step leaves the manager's
\* sequence a prefix of what it becomes and deletes no entity, and while an
\* update/draw fan-out is in progress the sequence does not change at all.
C9_OnlyRefreshRemoves ==
    [][/\ ~Refresh => /\ IsPrefix(m_entities, m_entities')
                      /\ \A e \in Entities : Live(e) => Live(e)'
       /\ stack # <<>> => /\ m_entities' = m_entities
                          /\ \A e \in Entities : Live(e) => Live(e)'
      ]_vars

\* a fan-out is in progress over a sequence that still holds a destroyed entity
C9_Witness ==
    /\ InPass(stack)
    /\ passLog # <<>>
    /\ \E k \in 1..Len(m_entities) : ~IsActive(m_entities[k])

\* C10 as claimed: once destroy() marked an entity inactive, the update and
\* draw hooks of its components are not called any more, even before refresh().
C10_NoHookOnceInactive ==
    [][\A c \in Comps : HookCalled(c) => IsActive(comp[c].owner)]_vars

\* C10 as amended: once destroy() marked an entity inactive, its components go
\* on receiving the update and draw calls of every manager pass for as long as
\* the entity stays in the manager's sequence; they receive none once a
\* refresh() has removed it.
C10_HooksUntilRemoved ==
    [][/\ \A c \in Comps : HookCalled(c) =>
            /\ LiveComp(c)
            /\ EState(comp[c].owner) \in {"Active", "PendingRemoval"}
            /\ comp[c].owner \in Range(m_entities)
       /\ (InPass(stack) /\ stack' = <<>> /\ ~passDirty) =>
            \A c \in Comps :
                (LiveComp(c) /\ EState(comp[c].owner) = "PendingRemoval") => c \in Range(passLog)
      ]_vars

\* a manager pass has called the hook of a component whose entity is inactive
\* and still in the sequence, after that of an active entity's component
C10_Witness ==
    /\ InPass(stack)
    /\ Len(passLog) = 2
    /\ IsActive(comp[passLog[1]].owner)
    /\ ~IsActive(comp[passLog[2]].owner)
    /\ comp[passLog[2]].owner \in Range(m_entities)

\* how often component c stands in the log of the pass
TimesCalled(c) == Cardinality({n \in 1..Len(passLog) : passLog[n] = c})

\* C11: a manager update() or draw() during which no hook adds a component
\* calls the hook of every component of every entity in the manager's sequence
\* exactly once, whatever the entity's active flag: an entity destroyed and not
\* yet refreshed away is dispatched to like any other, and every hook called
\* belongs to an entity of the sequence.
C11_DispatchIgnoresActiveFlag ==
    [][/\ (InPass(stack) /\ stack' = <<>> /\ ~passDirty) =>
            \A k \in 1..Len(m_entities) :
                \A j \in 1..Len(ent[m_entities[k]].m_components) :
                    TimesCalled(ent[m_entities[k]].m_components[j]) = 1
       /\ \A h \in HookKinds : (ManagerCall(h) /\ stack' = <<>>) =>
            \A k \in 1..Len(m_entities) : ent[m_entities[k]].m_components = <<>>
      ]_vars

\* a draw() pass has dispatched to the first and the second entity of the
\* sequence, both destroyed by the driver before the pass and not refreshed away
C11_Witness ==
    /\ InHook
    /\ Top.kind = "draw"
    /\ passDestroyers = {}
    /\ Len(m_entities) >= 2
    /\ Len(passLog) = 2
    /\ comp[passLog[1]].owner = m_entities[1]
    /\ comp[passLog[2]].owner = m_entities[2]
    /\ ~IsActive(m_entities[1])
    /\ ~IsActive(m_entities[2])

\* C12: destroy() called by a component's update or draw hook leaves the
\* fan-out of the owning entity alone: the call changes neither the loops nor
\* the log, and when a hook of that entity returns the loop calls the next
\* component of the owned sequence, until every one was called, in order.
C12_DestroyDoesNotCutPass ==
    [][/\ HookDestroy => stack' = stack /\ passLog' = passLog
       /\ \A d \in passDestroyers :
            (InHook /\ Top.kind \in HookKinds /\ Top.e = comp[d].owner /\ ~passDirty) =>
                LET e == Top.e
                    f == stack[Len(stack) - 1]
                    done == f.i - 1
                IN  /\ f.op = "ent" /\ f.e = e /\ f.end = Len(ent[e].m_components)
                    /\ SubSeq(passLog, Len(passLog) - done + 1, Len(passLog))
                            = SubSeq(ent[e].m_components, 1, done)
                    /\ HookReturn =>
                            IF done < Len(ent[e].m_components)
                            THEN HookCalled(ent[e].m_components[done + 1])
                            ELSE \A c \in Range(ent[e].m_components) : c \in Range(passLog)
      ]_vars

\* the update hook of an entity's first component called destroy(), and the
\* same pass has gone on to call the hook of the second component
C12_Witness ==
    /\ InHook
    /\ Top.kind = "update"
    /\ ~passDirty
    /\ Len(passLog) = 2
    /\ passLog[1] \in passDestroyers
    /\ passLog[2] = Top.c
    /\ comp[passLog[1]].owner = Top.e
    /\ ~IsActive(Top.e)

\* this step is the part of e.addComponent<T>() that makes component c, up to its init()
AddRecords(e, c) == ~LiveComp(c) /\ LiveComp(c)' /\ comp'[c].owner = e

\* the components of e that no slot of e's table points to
Shadowed(e) == {d \in CompsOf(e) : \A i \in DOMAIN ent[e].m_comArray : ent[e].m_comArray[i] # d}

\* what holds of the older components of c's type t, whenever addComponent has
\* made c on an entity e that had one: none is destroyed, each keeps its place
\* in the owned sequence, none is found through the table any more
OlderStay(e, c, t) ==
    \A d \in Owned(e, t) : d < c =>
        /\ LiveComp(d)'
        /\ \E k \in 1..Len(ent[e].m_components) :
                ent[e].m_components[k] = d /\ ent'[e].m_components[k] = d
        /\ d \in Shadowed(e)'

\* the parts of C13 that do not depend on what init() does
ShadowingSteps ==
    /\ \A e \in Entities, c \in Comps : AddRecords(e, c) =>
            /\ stack' # Crashed
            /\ ent'[e].m_components = Append(ent[e].m_components, c)
            /\ \E t \in Types : /\ t = comp'[c].type
                                /\ GetComponent(e, t)' = c
                                /\ OlderStay(e, c, t)
    /\ \A e \in Entities, c \in Comps : AddReturns(e, c) => OlderStay(e, c, comp[c].type)
    /\ (InPass(stack) /\ stack' = <<>> /\ ~passDirty) => passLog = Expected

\* C13 as claimed: addComponent<T> on an entity that has a T raises no error
\* and grows the owned sequence by one; the older instance is not destroyed,
\* keeps its place and its update/draw calls and is not found by getComponent
\* any more; when the call returns getComponent<T>() is the instance it made.
C13_ShadowedByJustCreated ==
    [][/\ ShadowingSteps
       /\ \A e \in Entities, c \in Comps :
            (AddReturns(e, c) /\ \E d \in Owned(e, comp[c].type) : d < c) =>
                GetComponent(e, comp[c].type)' = c
      ]_vars

\* C13 as amended: the same, but when the call returns getComponent<T>() is
\* the newest T of the entity: the instance the call made, unless its init()
\* added a further T.
C13_ShadowedByNewest ==
    [][/\ ShadowingSteps
       /\ \A e \in Entities, c \in Comps :
            (AddReturns(e, c) /\ \E d \in Owned(e, comp[c].type) : d < c) =>
                /\ GetComponent(e, comp[c].type)' = Newest(Owned(e, comp[c].type))
                /\ GetComponent(e, comp[c].type)' >= c
                /\ (\A d \in Owned(e, comp[c].type) : d <= c) =>
                        GetComponent(e, comp[c].type)' = c
      ]_vars

\* an entity was given a second component of a type it had; the call has
\* returned, getComponent finds the second, and a pass has since called the
\* hook of the first, in its place before the second
C13_Witness ==
    \E e \in Entities, c, d \in Comps :
        /\ d < c
        /\ comp[c].type = comp[d].type
        /\ Owned(e, comp[c].type) = {c, d}
        /\ Added(c)
        /\ GetComponent(e, comp[c].type) = c
        /\ d \in Shadowed(e)
        /\ ent[e].m_components = <<d, c>>
        /\ InPass(stack)
        /\ passLog = <<d, c>>

\* C14: getComponent<T>() on an entity for which hasComponent<T>() is false
\* ends in a failure of its own, "component not found": it neither hands back
\* a reference made from the empty slot nor faults on dereferencing it.
C14_MissingGetIsDefinedFailure ==
    [][\A e \in Entities, t \in Types :
        (GetComponentCall(e, t) /\ ~HasComponent(e, t)) =>
            (stack' # stack /\ stack' # Crashed)
      ]_vars

\* C15: the capacity of FDS_MAX_COM component types is enforced: no type is
\* ever given an identifier of FDS_MAX_COM or more, and no bit of a bitset and
\* no slot of a table is ever used at such an index.
C15_CapacityEnforced ==
    [][/\ \A t \in AllTypes : typeID'[t] < FDS_MAX_COM
       /\ \A e \in Entities :
            /\ DOMAIN ent'[e].m_comArray \subseteq Slots
            /\ ent'[e].m_comBitSet \subseteq Slots
      ]_vars

\* C20: when an update or draw hook calls addComponent on its own entity
\* while that entity's fan-out is in progress, the fan-out stays well defined:
\* the loop never goes on to read a component through a position of the owned
\* sequence that the growth of the sequence made stale, and the pass never
\* faults.
C20_FanOutWellDefined ==
    [][/\ InPass(stack) => stack' # Crashed
       /\ (InHook /\ Top.kind \in HookKinds /\ HookReturn) =>
            LET f == stack[Len(stack) - 1]
            IN  EntLoopGoes(f) => f.valid
      ]_vars

\* C16: emit() calls the callbacks in ascending order of their connection.
C16_EmitInConnectionOrder ==
    \A i, j \in 1..Len(emitLog) : i < j => emitLog[i] < emitLog[j]

\* this step is the return of a callback to emit(): the loop moves on
SlotReturns == inSlot # 0 /\ emitPos' # emitPos

\* this step calls the callback connected under id, from a new emit() or from
\* the loop of the one in progress
SigCalls(id) == inSlot' = id /\ (inSlot = 0 \/ SlotReturns)

\* this step is the return of an emit() that called at least one callback
SigEmitEnds == SlotReturns /\ inSlot' = 0

\* C17 as claimed: the callbacks one emit() calls are exactly those connected
\* when it started, whatever the callbacks connect or disconnect meanwhile.
C17_EmitCallsExactlyStartSet ==
    [][SigEmitEnds => Range(emitLog) = emitStart]_vars

\* C17 as amended: an emit() calls, once each, the callbacks that were
\* connected when it started and are still connected when their turn comes: a
\* callback connected during the emit is not called by it, and a callback
\* disconnected during the emit before its turn is not called either.
C17_EmitCallsStillConnected ==
    [][/\ \A id \in Ids : SigCalls(id) =>
            /\ id \in emitStart'
            /\ id \in slots_
            /\ SlotReturns => id \notin Range(emitLog)
       /\ SlotReturns =>
            \A k \in (emitPos + 1)..(emitPos' - 1) : emitIds[k] \notin slots_
       /\ SigEmitEnds =>
            /\ Range(emitLog) \subseteq emitStart
            /\ emitStart \cap slots_ \subseteq Range(emitLog)
            /\ (slots_ \ emitStart) \cap Range(emitLog) = {}
      ]_vars

\* of three callbacks connected when an emit() started, the first called has
\* disconnected the second and connected a fourth; the emit has passed over the
\* second and is calling the third
C17_Witness ==
    /\ emitStart = {1, 2, 3}
    /\ emitPos = 3
    /\ inSlot = emitIds[3]
    /\ emitLog = <<emitIds[1], emitIds[3]>>
    /\ emitIds[2] \notin slots_
    /\ 4 \in slots_

\* C18: a loop with rounds > 0 invokes the callback once per round, the
\* immediate execution counting as a round, makes exactly rounds rounds and
\* then its thread ends; a loop with rounds = 0 never ends and goes on making
\* rounds for as long as it is followed.
C18_RoundsThenTerminates ==
    /\ [](\A w \in Workers : worker[w].mode = "rounds" =>
            /\ worker[w].calls = IF worker[w].callback THEN worker[w].current_round ELSE 0
            /\ worker[w].rounds > 0 => worker[w].current_round <= worker[w].rounds
            /\ (worker[w].rounds > 0 /\ worker[w].pc = "done") =>
                    worker[w].current_round = worker[w].rounds
            /\ worker[w].rounds = 0 => worker[w].pc # "done")
    /\ \A w \in Workers :
            (worker[w].mode = "rounds" /\ worker[w].rounds > 0) ~> (worker[w].pc = "done")
    /\ \A w \in Workers :
            (worker[w].mode = "rounds" /\ worker[w].rounds = 0)
                ~> (worker[w].current_round = MaxRounds /\ worker[w].pc # "done")

\* a loop of two rounds with execute_immediately set has called its callback
\* twice and ended
C18_Witness ==
    \E w \in Workers :
        /\ worker[w].mode = "rounds"
        /\ worker[w].rounds = 2
        /\ worker[w].execute_immediately = "true"
        /\ worker[w].callback
        /\ worker[w].calls = 2
        /\ worker[w].pc = "done"

\* this step invokes the callback of worker w
Invoked(w) == worker'[w].calls = worker[w].calls + 1

\* C19 as claimed: in a loop with a condition, every invocation of the
\* callback follows an evaluation of the condition that returned true, with no
\* other invocation in between, whatever execute_immediately is; once the
\* condition has returned false the callback is not invoked again.
C19_CallOnlyAfterTrue ==
    [][\A w \in Workers : worker[w].mode = "cond" =>
        /\ Invoked(w) => worker[w].lastEval = "true"
        /\ worker[w].stopped => worker'[w].calls = worker[w].calls
      ]_vars

\* C19 as amended: the same of every invocation but the immediate one, which
\* a loop with execute_immediately set makes first, before it evaluates the
\* condition at all.
C19_CallAfterTrueOrImmediate ==
    [][\A w \in Workers : worker[w].mode = "cond" =>
        /\ Invoked(w) =>
            \/ worker[w].lastEval = "true"
            \/ /\ worker[w].pc = "begin"
               /\ worker[w].execute_immediately = "true"
               /\ worker[w].calls = 0
               /\ worker[w].lastEval = "none"
        /\ (Invoked(w) /\ worker[w].execute_immediately # "true") => worker[w].lastEval = "true"
        /\ worker[w].stopped => worker'[w].calls = worker[w].calls
        /\ worker[w].stopped => worker'[w].pc = "done"
      ]_vars

\* a loop with execute_immediately set has invoked its callback at once, then
\* once more after the condition returned true, and has ended when it
\* returned false
C19_Witness ==
    \E w \in Workers :
        /\ worker[w].mode = "cond"
        /\ worker[w].execute_immediately = "true"
        /\ worker[w].calls = 2
        /\ worker[w].stopped
        /\ worker[w].pc = "done"
====
